---- MODULE Spec2Model ----
(***************************************************************************)
(* Model of the two dashboard patch scripts of monitoring/:                *)
(*   add_db_panels.py          inserts a block of 23 generated panels at   *)
(*                             the end of the "Database" section;          *)
(*   add_tx_creation_panel.py  inserts or refreshes the singleton panel    *)
(*                             with ID 300 below "Database Transactions".  *)
(* A dashboard document is the JSON file grafana/dashboards/overview.json. *)
(* A panel is a record; a key the JSON object may lack is modelled by a    *)
(* flag (hasGridPos, hasY), and the document's "panels" key by hasPanels.  *)
(* Python list indices are 0-based; the sequences here are 1-based, so the *)
(* Python index i is the index i + 1 here and None is 0.                   *)
(***************************************************************************)
EXTENDS Integers, Sequences, FiniteSets, TLC

\* ---------------------------------------------------------------- bounds
MaxLen == 3        \* longest panel list of an initial dashboard
MaxRuns == 2       \* number of script runs in one behaviour

\* ------------------------------------------------------ program constants
StartY == 17             \* generate_db_panels: current_y = 17
StartId == 200           \* generate_db_panels: panel_id = 200
DbYOffset == 40          \* add_db_panels.main: y_offset = 40
TxPanelId == 300         \* add_tx_creation_panel: reserved ID
TxYOffset == 8           \* add_tx_creation_panel.main: y_offset = 8
GridWidth == 24          \* full-width panels use w = 24

\* ---------------------------------------------------------------- panels
\* A panel with a complete gridPos.
Panel(id, type, title, x, y, w, h, payload, targets) ==
    [id |-> id, type |-> type, title |-> title,
     hasGridPos |-> TRUE, hasY |-> TRUE, x |-> x, y |-> y, w |-> w, h |-> h,
     payload |-> payload, targets |-> targets]

create_row_panel(title, y_pos, panel_id) ==
    Panel(panel_id, "row", title, 0, y_pos, GridWidth, 1, "row", << >>)

create_timeseries_panel(title, x, y, w, h, panel_id) ==
    Panel(panel_id, "timeseries", title, x, y, w, h, "timeseries", <<"A">>)

\* Variant: width and height end up in each other's gridPos field.
create_stat_panel_SwapWH(title, x, y, w, h, panel_id) ==
    Panel(panel_id, "stat", title, x, y, h, w, "stat", <<"A">>)

create_stat_panel(title, x, y, w, h, panel_id) ==
    Panel(panel_id, "stat", title, x, y, w, h, "stat", <<"A">>)

create_gauge_panel(title, x, y, w, h, panel_id) ==
    Panel(panel_id, "gauge", title, x, y, w, h, "gauge", <<"A">>)

\* Variant: every appended target is a copy of the first one and keeps its
\* refId "A".
AppendTargets_SameRefId(p, refIds) ==
    [p EXCEPT !.targets = @ \o [i \in 1..Len(refIds) |-> "A"]]

\* panels[-1]["targets"].append(...) / .extend([...]) with the given refIds
AppendTargets(p, refIds) == [p EXCEPT !.targets = @ \o refIds]

generate_db_panels ==
    LET y0 == StartY          \* row "Database Transactions"
        y1 == y0 + 1          \* two time series, h = 8
        y2 == y1 + 8          \* four stats, h = 4
        y3 == y2 + 4          \* row "Database Operations"
        y4 == y3 + 1          \* two time series, h = 8
        y5 == y4 + 8          \* gauge and stats, 6 high
        y6 == y5 + 6          \* row "Database Performance"
        y7 == y6 + 1          \* two time series, h = 8
        y8 == y7 + 8          \* two time series, h = 8
        id(k) == StartId + k
    IN << create_row_panel("Database Transactions", y0, id(0)),
          AppendTargets(create_timeseries_panel("Transaction Creation Rate",
                            0, y1, 12, 8, id(1)), <<"B">>),
          AppendTargets(AppendTargets(
              create_timeseries_panel("Transaction Commit Status",
                            12, y1, 12, 8, id(2)), <<"B">>), <<"C">>),
          create_stat_panel("Total RO Transactions", 0, y2, 6, 4, id(3)),
          create_stat_panel("Total RW Transactions", 6, y2, 6, 4, id(4)),
          create_stat_panel("Successful Commits", 12, y2, 6, 4, id(5)),
          create_stat_panel("Failed/Aborted", 18, y2, 6, 4, id(6)),
          create_row_panel("Database Operations", y3, id(7)),
          AppendTargets(create_timeseries_panel("Operation Rate by Type",
                            0, y4, 12, 8, id(8)), <<"B", "C", "D">>),
          AppendTargets(create_timeseries_panel("Delete Success Rate",
                            12, y4, 12, 8, id(9)), <<"B">>),
          create_gauge_panel("Get Cache Hit Rate", 0, y5, 6, 6, id(10)),
          create_stat_panel("Total Gets", 6, y5, 6, 3, id(11)),
          create_stat_panel("Get Hits", 6, y5 + 3, 3, 3, id(12)),
          create_stat_panel("Get Misses", 9, y5 + 3, 3, 3, id(13)),
          create_stat_panel("Total Puts", 12, y5, 6, 3, id(14)),
          create_stat_panel("Total Deletes", 18, y5, 6, 3, id(15)),
          create_stat_panel("Delete Success", 18, y5 + 3, 3, 3, id(16)),
          create_stat_panel("Delete Failures", 21, y5 + 3, 3, 3, id(17)),
          create_row_panel("Database Performance", y6, id(18)),
          AppendTargets(create_timeseries_panel("Transaction Commit Time (p99)",
                            0, y7, 12, 8, id(19)), <<"B", "C">>),
          AppendTargets(create_timeseries_panel("Get Operation Time (p99)",
                            12, y7, 12, 8, id(20)), <<"B", "C">>),
          AppendTargets(create_timeseries_panel("Put Operation Time (p99)",
                            0, y8, 12, 8, id(21)), <<"B", "C">>),
          AppendTargets(create_timeseries_panel("Delete Operation Time (p99)",
                            12, y8, 12, 8, id(22)), <<"B", "C">>) >>

\* Variant: the y argument is dropped and the default y = 1 is used.
create_tx_creation_panel_DefaultY(panel_id, x, y, w, h) ==
    Panel(panel_id, "timeseries", "Transaction Creation", x, 1, w, h,
          "tx_creation", <<"A", "B", "C">>)

\* Variant: width and height are passed in the wrong order.
create_tx_creation_panel_SwapWH(panel_id, x, y, w, h) ==
    Panel(panel_id, "timeseries", "Transaction Creation", x, y, h, w,
          "tx_creation", <<"A", "B", "C">>)

create_tx_creation_panel(panel_id, x, y, w, h) ==
    Panel(panel_id, "timeseries", "Transaction Creation", x, y, w, h,
          "tx_creation", <<"A", "B", "C">>)

\* ------------------------------------------------------- list operations
\* for i, panel in enumerate(panels): if type == 'row' and title == t: break
RECURSIVE FindRowFrom(_, _, _)
FindRowFrom(panels, title, i) ==
    IF i > Len(panels) THEN 0
    ELSE IF panels[i].type = "row" /\ panels[i].title = title THEN i
    ELSE FindRowFrom(panels, title, i + 1)

\* Variant: the anchor is matched on its title alone.
FindRow_AnyType(panels, title) ==
    LET S == { i \in 1..Len(panels) : panels[i].title = title }
    IN IF S = {} THEN 0 ELSE CHOOSE i \in S : \A j \in S : i <= j

\* Variant: the scan has no break, so the last matching row wins.
FindRow_Last(panels, title) ==
    LET S == { i \in 1..Len(panels) :
                  panels[i].type = "row" /\ panels[i].title = title }
    IN IF S = {} THEN 0 ELSE CHOOSE i \in S : \A j \in S : j <= i

FindRow(panels, title) == FindRowFrom(panels, title, 1)

\* for panel in panels: if panel.get('id') == 300: ... break
RECURSIVE FindIdFrom(_, _, _)
FindIdFrom(panels, id, i) ==
    IF i > Len(panels) THEN 0
    ELSE IF panels[i].id = id THEN i
    ELSE FindIdFrom(panels, id, i + 1)

\* Variant: the existence check never matches.
FindId_NeverFound(panels, id) == 0

FindId(panels, id) == FindIdFrom(panels, id, 1)

\* Variant: the block goes directly after the anchor row.
SectionEnd_AtAnchor(panels, i) == i

\* while insert_index < len(panels) and panels[insert_index].type != 'row'
RECURSIVE SectionEnd(_, _)
SectionEnd(panels, i) ==
    IF i <= Len(panels) /\ panels[i].type /= "row"
    THEN SectionEnd(panels, i + 1)
    ELSE i

\* Variant: the loop lacks the "'gridPos' in panel" guard, so a panel without
\* a gridPos raises KeyError.
RECURSIVE DbShift_NoGuard(_, _, _)
DbShift_NoGuard(panels, i, y_offset) ==
    IF i > Len(panels) THEN [ok |-> TRUE, panels |-> panels]
    ELSE IF ~(panels[i].hasGridPos /\ panels[i].hasY)
         THEN [ok |-> FALSE, panels |-> panels]
    ELSE DbShift_NoGuard([panels EXCEPT ![i].y = @ + y_offset], i + 1,
                         y_offset)

\* add_db_panels: for panel in panels[insert_index:]:
\*                    if 'gridPos' in panel: panel['gridPos']['y'] += y_offset
\* A gridPos without 'y' raises KeyError; the panels before it stay shifted.
RECURSIVE DbShift(_, _, _)
DbShift(panels, i, y_offset) ==
    IF i > Len(panels) THEN [ok |-> TRUE, panels |-> panels]
    ELSE IF ~panels[i].hasGridPos THEN DbShift(panels, i + 1, y_offset)
    ELSE IF ~panels[i].hasY THEN [ok |-> FALSE, panels |-> panels]
    ELSE DbShift([panels EXCEPT ![i].y = @ + y_offset], i + 1, y_offset)

\* add_tx_creation_panel: for panel in panels[insert_index:]:
\*     if 'gridPos' in panel:
\*         if panel['gridPos']['y'] >= new_panel_y: panel['gridPos']['y'] += 8
\* Variant: the comparison with new_panel_y is strict.
RECURSIVE TxShift_Strict(_, _, _, _)
TxShift_Strict(panels, i, new_panel_y, y_offset) ==
    IF i > Len(panels) THEN [ok |-> TRUE, panels |-> panels]
    ELSE IF ~panels[i].hasGridPos
         THEN TxShift_Strict(panels, i + 1, new_panel_y, y_offset)
    ELSE IF ~panels[i].hasY THEN [ok |-> FALSE, panels |-> panels]
    ELSE IF panels[i].y > new_panel_y
         THEN TxShift_Strict([panels EXCEPT ![i].y = @ + y_offset], i + 1,
                             new_panel_y, y_offset)
    ELSE TxShift_Strict(panels, i + 1, new_panel_y, y_offset)

\* Variant: the slice starts one panel too late (panels[insert_index + 1:]).
TxShift_SkipFirst(panels, i, new_panel_y, y_offset) ==
    [ok |-> \A j \in (i + 1)..Len(panels) :
                panels[j].hasGridPos => panels[j].hasY,
     panels |-> [j \in 1..Len(panels) |->
                    IF /\ j > i
                       /\ panels[j].hasGridPos
                       /\ panels[j].hasY
                       /\ panels[j].y >= new_panel_y
                    THEN [panels[j] EXCEPT !.y = @ + y_offset]
                    ELSE panels[j]]]

RECURSIVE TxShift(_, _, _, _)
TxShift(panels, i, new_panel_y, y_offset) ==
    IF i > Len(panels) THEN [ok |-> TRUE, panels |-> panels]
    ELSE IF ~panels[i].hasGridPos
         THEN TxShift(panels, i + 1, new_panel_y, y_offset)
    ELSE IF ~panels[i].hasY THEN [ok |-> FALSE, panels |-> panels]
    ELSE IF panels[i].y >= new_panel_y
         THEN TxShift([panels EXCEPT ![i].y = @ + y_offset], i + 1,
                      new_panel_y, y_offset)
    ELSE TxShift(panels, i + 1, new_panel_y, y_offset)

\* Variant: the block is inserted one panel at a time at the same index,
\* which reverses it.
Splice_Reversed(panels, k, block) ==
    SubSeq(panels, 1, k - 1)
        \o [i \in 1..Len(block) |-> block[Len(block) + 1 - i]]
        \o SubSeq(panels, k, Len(panels))

\* panels[insert_index:insert_index] = block   (the block goes before the
\* element that is at position k here)
Splice(panels, k, block) ==
    SubSeq(panels, 1, k - 1) \o block \o SubSeq(panels, k, Len(panels))

\* ------------------------------------------------- the initial documents
NoGridPanel(id, type, title) ==
    [id |-> id, type |-> type, title |-> title,
     hasGridPos |-> FALSE, hasY |-> FALSE, x |-> 0, y |-> 0, w |-> 0, h |-> 0,
     payload |-> "existing", targets |-> << >>]

NoYPanel(id, type, title, x, w, h) ==
    [id |-> id, type |-> type, title |-> title,
     hasGridPos |-> TRUE, hasY |-> FALSE, x |-> x, y |-> 0, w |-> w, h |-> h,
     payload |-> "existing", targets |-> <<"A">>]

\* Panels an overview dashboard may hold before either script has run.
\* Their rectangles are pairwise disjoint.
ExistingPanels ==
    { Panel(1, "row", "Database", 0, 10, GridWidth, 1, "existing", << >>),
      Panel(2, "stat", "Freelist Size", 0, 12, 6, 2, "existing", <<"A">>),
      Panel(3, "row", "Database Transactions", 0, 11, GridWidth, 1,
            "existing", << >>),
      Panel(TxPanelId, "timeseries", "Transaction Creation", 6, 5, 12, 4,
            "existing", <<"A", "B">>),
      Panel(5, "row", "Network", 0, 17, GridWidth, 1, "existing", << >>),
      Panel(StartId, "stat", "Peers", 0, 20, 6, 3, "existing", <<"A">>),
      Panel(9, "stat", "Database", 12, 12, 12, 2, "existing", <<"A">>),
      Panel(10, "row", "Database", 0, 30, GridWidth, 1, "existing", << >>),
      NoGridPanel(7, "text", "Notes"),
      NoGridPanel(11, "row", "Database Transactions"),
      NoGridPanel(TxPanelId, "timeseries", "Transaction Creation"),
      NoYPanel(8, "stat", "Broken", 18, 6, 3) }

\* Panel IDs are unique within a dashboard document (the data model's
\* invariant); the initial documents respect it.
UniqueIds(panels) ==
    \A i, j \in 1..Len(panels) : panels[i].id = panels[j].id => i = j

PanelLists ==
    { s \in UNION { [1..n -> ExistingPanels] : n \in 0..MaxLen } :
        UniqueIds(s) }

Doc(panels) == [hasPanels |-> TRUE, panels |-> panels]

\* A document without the top-level "panels" key.
NoPanelsDoc == [hasPanels |-> FALSE, panels |-> << >>]

Documents == { Doc(s) : s \in PanelLists } \cup { NoPanelsDoc }

\* ------------------------------------------------------------------ state
VARIABLES
    file,         \* the persisted document
    dashboard,    \* the document in the running script's memory
    pc,           \* position of the running script, "idle" between runs
    script,       \* the script that runs or ran last: "none", "db", "tx"
    anchor,       \* db_row_index / db_tx_row_index (1-based, 0 = None)
    exit_status,  \* exit status of the last run, -1 before it has ended
    before,       \* the persisted document when the current run started
    prev_before,  \* the persisted document when the run before it started
    history       \* the runs that have ended: script, exit status, branch

vars == <<file, dashboard, pc, script, anchor, exit_status, before,
          prev_before, history>>

Init ==
    /\ file \in Documents
    /\ dashboard = NoPanelsDoc
    /\ pc = "idle"
    /\ script = "none"
    /\ anchor = 0
    /\ exit_status = -1
    /\ before = file
    /\ prev_before = file
    /\ history = << >>

\* The process ends: sys.exit(1), an uncaught KeyError (status 1 as well),
\* or the end of main (status 0).
Exit(status, branch) ==
    /\ pc' = "idle"
    /\ exit_status' = status
    /\ history' = Append(history,
                         [script |-> script, status |-> status,
                          branch |-> branch])

\* --------------------------------------------------------- add_db_panels
DbLoad ==
    /\ pc = "idle"
    /\ Len(history) < MaxRuns
    /\ dashboard' = file
    /\ before' = file
    /\ prev_before' = before
    /\ script' = "db"
    /\ pc' = "db_loaded"
    /\ anchor' = 0
    /\ exit_status' = -1
    /\ UNCHANGED <<file, history>>

DbFindAnchor ==
    /\ pc = "db_loaded"
    /\ IF ~dashboard.hasPanels
       THEN /\ Exit(1, "KeyError")
            /\ UNCHANGED anchor
       ELSE LET db_row_index == FindRow(dashboard.panels, "Database")
            IN IF db_row_index = 0
               THEN /\ Exit(1, "no_anchor")
                    /\ UNCHANGED anchor
               ELSE /\ anchor' = db_row_index
                    /\ pc' = "db_anchored"
                    /\ UNCHANGED <<exit_status, history>>
    /\ UNCHANGED <<file, dashboard, script, before, prev_before>>

\* Variant: the document is saved in a cleanup handler, so an aborted shift
\* persists the panels it has already moved.
DbInsert_SaveOnError ==
    /\ pc = "db_anchored"
    /\ LET insert_index == SectionEnd(dashboard.panels, anchor + 1)
           shifted == DbShift(dashboard.panels, insert_index, DbYOffset)
       IN IF ~shifted.ok
          THEN /\ dashboard' = [dashboard EXCEPT !.panels = shifted.panels]
               /\ file' = dashboard'
               /\ Exit(1, "KeyError")
          ELSE /\ dashboard' = [dashboard EXCEPT !.panels =
                      Splice(shifted.panels, insert_index, generate_db_panels)]
               /\ file' = file
               /\ pc' = "db_spliced"
               /\ UNCHANGED <<exit_status, history>>
    /\ UNCHANGED <<script, anchor, before, prev_before>>

DbInsert ==
    /\ pc = "db_anchored"
    /\ LET insert_index == SectionEnd(dashboard.panels, anchor + 1)
           shifted == DbShift(dashboard.panels, insert_index, DbYOffset)
       IN IF ~shifted.ok
          THEN /\ dashboard' = [dashboard EXCEPT !.panels = shifted.panels]
               /\ Exit(1, "KeyError")
          ELSE /\ dashboard' = [dashboard EXCEPT !.panels =
                      Splice(shifted.panels, insert_index, generate_db_panels)]
               /\ pc' = "db_spliced"
               /\ UNCHANGED <<exit_status, history>>
    /\ UNCHANGED <<file, script, anchor, before, prev_before>>

DbWrite ==
    /\ pc = "db_spliced"
    /\ file' = dashboard
    /\ Exit(0, "insert")
    /\ UNCHANGED <<dashboard, script, anchor, before, prev_before>>

\* -------------------------------------------------- add_tx_creation_panel
TxLoad ==
    /\ pc = "idle"
    /\ Len(history) < MaxRuns
    /\ dashboard' = file
    /\ before' = file
    /\ prev_before' = before
    /\ script' = "tx"
    /\ pc' = "tx_loaded"
    /\ anchor' = 0
    /\ exit_status' = -1
    /\ UNCHANGED <<file, history>>

\* Variant: the singleton check comes first and the anchor is looked up on the
\* insert path only.
TxFindAnchor_SingletonFirst ==
    /\ pc = "tx_loaded"
    /\ IF ~dashboard.hasPanels
       THEN /\ Exit(1, "KeyError")
            /\ UNCHANGED anchor
       ELSE LET db_tx_row_index ==
                    FindRow(dashboard.panels, "Database Transactions")
            IN IF FindId(dashboard.panels, TxPanelId) = 0 /\ db_tx_row_index = 0
               THEN /\ Exit(1, "no_anchor")
                    /\ UNCHANGED anchor
               ELSE /\ anchor' = db_tx_row_index
                    /\ pc' = "tx_anchored"
                    /\ UNCHANGED <<exit_status, history>>
    /\ UNCHANGED <<file, dashboard, script, before, prev_before>>

TxFindAnchor ==
    /\ pc = "tx_loaded"
    /\ IF ~dashboard.hasPanels
       THEN /\ Exit(1, "KeyError")
            /\ UNCHANGED anchor
       ELSE LET db_tx_row_index ==
                    FindRow(dashboard.panels, "Database Transactions")
            IN IF db_tx_row_index = 0
               THEN /\ Exit(1, "no_anchor")
                    /\ UNCHANGED anchor
               ELSE /\ anchor' = db_tx_row_index
                    /\ pc' = "tx_anchored"
                    /\ UNCHANGED <<exit_status, history>>
    /\ UNCHANGED <<file, dashboard, script, before, prev_before>>

\* panel_exists: replace the first panel with ID 300, keeping its y
TxUpdate ==
    /\ pc = "tx_anchored"
    /\ FindId(dashboard.panels, TxPanelId) /= 0
    /\ LET i == FindId(dashboard.panels, TxPanelId)
           panel == dashboard.panels[i]
       IN IF ~(panel.hasGridPos /\ panel.hasY)
          THEN /\ Exit(1, "KeyError")
               /\ UNCHANGED dashboard
          ELSE /\ dashboard' = [dashboard EXCEPT !.panels[i] =
                      create_tx_creation_panel(TxPanelId, 0, panel.y,
                                               GridWidth, 8)]
               /\ pc' = "tx_updated"
               /\ UNCHANGED <<exit_status, history>>
    /\ UNCHANGED <<file, script, anchor, before, prev_before>>

\* not panel_exists: shift the panels below and insert after the anchor row
TxInsert ==
    /\ pc = "tx_anchored"
    /\ FindId(dashboard.panels, TxPanelId) = 0
    /\ LET insert_index == anchor + 1
           row == dashboard.panels[anchor]
       IN IF ~(row.hasGridPos /\ row.hasY)
          THEN /\ Exit(1, "KeyError")
               /\ UNCHANGED dashboard
          ELSE LET new_panel_y == row.y + 1
                   shifted == TxShift(dashboard.panels, insert_index,
                                      new_panel_y, TxYOffset)
               IN IF ~shifted.ok
                  THEN /\ dashboard' =
                              [dashboard EXCEPT !.panels = shifted.panels]
                       /\ Exit(1, "KeyError")
                  ELSE /\ dashboard' = [dashboard EXCEPT !.panels =
                              Splice(shifted.panels, insert_index,
                                     << create_tx_creation_panel(TxPanelId,
                                            0, new_panel_y, GridWidth, 8) >>)]
                       /\ pc' = "tx_inserted"
                       /\ UNCHANGED <<exit_status, history>>
    /\ UNCHANGED <<file, script, anchor, before, prev_before>>

TxWrite ==
    /\ pc \in {"tx_updated", "tx_inserted"}
    /\ file' = dashboard
    /\ Exit(0, IF pc = "tx_updated" THEN "update" ELSE "insert")
    /\ UNCHANGED <<dashboard, script, anchor, before, prev_before>>

Next ==
    \/ DbLoad
    \/ DbFindAnchor
    \/ DbInsert
    \/ DbWrite
    \/ TxLoad
    \/ TxFindAnchor
    \/ TxUpdate
    \/ TxInsert
    \/ TxWrite

Spec == Init /\ [][Next]_vars

\* ================================================================ claims
\* ------------------------------------------- vocabulary of the properties
LastRun == history[Len(history)]

\* The last run was script s, ended with status 0 and took the given branch.
Succeeded(s, branch) ==
    /\ pc = "idle"
    /\ Len(history) > 0
    /\ LastRun = [script |-> s, status |-> 0, branch |-> branch]

IsRow(p, title) == p.type = "row" /\ p.title = title

HasRow(panels, title) == \E i \in 1..Len(panels) : IsRow(panels[i], title)

\* the lowest index of a row with the title (the list has one)
FirstRow(panels, title) ==
    CHOOSE i \in 1..Len(panels) :
        /\ IsRow(panels[i], title)
        /\ \A j \in 1..(i - 1) : ~IsRow(panels[j], title)

\* the index of the first row after index a, or one past the end
NextRowAfter(panels, a) ==
    CHOOSE k \in (a + 1)..(Len(panels) + 1) :
        /\ k <= Len(panels) => panels[k].type = "row"
        /\ \A j \in (a + 1)..(k - 1) : panels[j].type /= "row"

Count(panels, id) == Cardinality({ i \in 1..Len(panels) : panels[i].id = id })

IndexOfId(panels, id) == CHOOSE i \in 1..Len(panels) : panels[i].id = id

HasRect(p) == p.hasGridPos /\ p.hasY

Overlap(p, q) ==
    /\ HasRect(p) /\ HasRect(q)
    /\ p.x < q.x + q.w /\ q.x < p.x + p.w
    /\ p.y < q.y + q.h /\ q.y < p.y + p.h

NoOverlap(panels) ==
    \A i, j \in 1..Len(panels) : i /= j => ~Overlap(panels[i], panels[j])

SeqMax(f, n) == CHOOSE m \in { f[i] : i \in 1..n } : \A i \in 1..n : f[i] <= m

SeqMin(f, n) == CHOOSE m \in { f[i] : i \in 1..n } : \A i \in 1..n : m <= f[i]

\* lowest bottom edge of a block minus the y of its first panel
BlockHeight(block) ==
    SeqMax([i \in 1..Len(block) |-> block[i].y + block[i].h], Len(block))
        - block[1].y

Fresh300(p) ==
    /\ p.id = 300
    /\ p.type = "timeseries"
    /\ p.title = "Transaction Creation"
    /\ p.payload = "tx_creation"
    /\ p.targets = <<"A", "B", "C">>

\* ---------------------------------------------------------------- C1
\* C1: a run of add_db_panels on a dashboard whose panel list has no panel
\* of type "row" titled "Database" never writes the file (the file equals
\* its content at the start of the run throughout) and ends with status 1.
C1_AnchorMissingAbort ==
    (script = "db" /\ before.hasPanels /\ ~HasRow(before.panels, "Database"))
        => /\ file = before
           /\ pc \in {"idle", "db_loaded"}
           /\ pc = "idle" => exit_status = 1

\* a db run has ended on a dashboard that has a panel titled "Database"
\* which is not a row
C1_Witness ==
    /\ script = "db" /\ pc = "idle" /\ exit_status = 1
    /\ before.hasPanels /\ ~HasRow(before.panels, "Database")
    /\ \E i \in 1..Len(before.panels) : before.panels[i].title = "Database"
    /\ LastRun.branch = "no_anchor"

\* ---------------------------------------------------------------- C2
\* C2: when two successive runs of add_tx_creation_panel both succeed, the
\* second leaves the document as the first produced it, and that document
\* holds exactly one panel with ID 300.
C2_TxIdempotent ==
    ( /\ pc = "idle"
      /\ Len(history) >= 2
      /\ history[Len(history) - 1].script = "tx"
      /\ history[Len(history) - 1].status = 0
      /\ LastRun.script = "tx"
      /\ LastRun.status = 0 )
        => /\ file = before
           /\ Count(file.panels, 300) = 1

\* a fresh insertion followed by a second successful run
C2_Witness ==
    /\ pc = "idle"
    /\ Len(history) >= 2
    /\ history[Len(history) - 1] =
           [script |-> "tx", status |-> 0, branch |-> "insert"]
    /\ LastRun = [script |-> "tx", status |-> 0, branch |-> "update"]
    /\ Len(file.panels) > 2

\* ---------------------------------------------------------------- C3
\* C3: update path of add_tx_creation_panel: the output has as many panels
\* as the input and exactly one panel with ID 300; that panel sits at the
\* index of the input's ID-300 panel, has its y and the freshly constructed
\* content; every panel at another index is identical to the input's.
C3_UpdateInPlace ==
    (Succeeded("tx", "update") /\ Count(before.panels, 300) >= 1)
        => /\ Len(file.panels) = Len(before.panels)
           /\ Count(file.panels, 300) = 1
           /\ \A i \in 1..Len(before.panels) :
                 IF before.panels[i].id = 300
                 THEN /\ Fresh300(file.panels[i])
                      /\ file.panels[i].hasGridPos /\ file.panels[i].hasY
                      /\ file.panels[i].y = before.panels[i].y
                 ELSE file.panels[i] = before.panels[i]

\* a stale ID-300 panel at y = 5 among other panels has been refreshed
C3_Witness ==
    /\ Succeeded("tx", "update")
    /\ Len(before.panels) >= 3
    /\ \E i \in 1..Len(before.panels) :
          /\ before.panels[i].id = 300
          /\ before.panels[i].payload = "existing"
          /\ before.panels[i].y = 5
          /\ file.panels[i].y = 5

\* ---------------------------------------------------------------- C4
\* C4 as stated: on the update path the replacement panel has the whole
\* rectangle (x, y, w, h) of the panel it replaces.
C4_SameRectangle ==
    (Succeeded("tx", "update") /\ Count(before.panels, 300) = 1)
        => LET old == before.panels[IndexOfId(before.panels, 300)]
               new == file.panels[IndexOfId(before.panels, 300)]
           IN /\ new.x = old.x /\ new.y = old.y
              /\ new.w = old.w /\ new.h = old.h

\* C4 amended: on the update path the replacement panel keeps the y of the
\* panel it replaces; its x, w and h are set to 0, 24 and 8.
C4_SameYFixedRest ==
    (Succeeded("tx", "update") /\ Count(before.panels, 300) = 1)
        => LET old == before.panels[IndexOfId(before.panels, 300)]
               new == file.panels[IndexOfId(before.panels, 300)]
           IN /\ new.id = 300
              /\ new.y = old.y
              /\ new.x = 0 /\ new.w = 24 /\ new.h = 8

\* the replaced panel had another x, w and h
C4_Witness ==
    /\ Succeeded("tx", "update")
    /\ Count(before.panels, 300) = 1
    /\ LET old == before.panels[IndexOfId(before.panels, 300)]
       IN old.x /= 0 /\ old.w /= 24 /\ old.h /= 8

\* ---------------------------------------------------------------- C5
\* C5: starting from a dashboard with unique panel IDs, after any sequence
\* of runs of the two scripts all panel IDs of the persisted panel list are
\* pairwise distinct.
C5_NoDuplicateIds ==
    UniqueIds(file.panels)

\* ---------------------------------------------------------------- C6
\* C6: after a successful add_db_panels run every pre-existing panel at or
\* after the insertion index that has a gridPos has y equal to its original
\* y plus the height of the inserted block (lowest bottom edge minus the
\* block's first y).
C6_ExactBlockHeight ==
    (Succeeded("db", "insert"))
        => LET a == FirstRow(before.panels, "Database")
               k == NextRowAfter(before.panels, a)
               n == Len(generate_db_panels)
           IN \A i \in k..Len(before.panels) :
                 HasRect(before.panels[i]) =>
                     file.panels[i + n].y =
                         before.panels[i].y + BlockHeight(generate_db_panels)

\* ---------------------------------------------------------------- C7
\* C7 as stated: on the fresh-insert path the new panel is at index
\* anchor + 1 with y = anchor row y + 1 and h = 8, and every pre-existing
\* panel at or after that index that has a gridPos has y increased by 8.
C7_ShiftAll ==
    (Succeeded("tx", "insert"))
        => LET a == FirstRow(before.panels, "Database Transactions")
           IN /\ file.panels[a + 1].id = 300
              /\ file.panels[a + 1].y = before.panels[a].y + 1
              /\ file.panels[a + 1].h = 8
              /\ \A i \in (a + 1)..Len(before.panels) :
                    HasRect(before.panels[i]) =>
                        file.panels[i + 1].y = before.panels[i].y + 8

\* C7 amended: ... and a pre-existing panel at or after that index that has
\* a gridPos has y increased by 8 when its y is at least the new panel's y
\* (anchor row y + 1), and keeps its y otherwise.
C7_ShiftAtOrBelow ==
    (Succeeded("tx", "insert"))
        => LET a == FirstRow(before.panels, "Database Transactions")
               ny == before.panels[a].y + 1
           IN /\ file.panels[a + 1].id = 300
              /\ file.panels[a + 1].y = ny
              /\ file.panels[a + 1].h = 8
              /\ \A i \in (a + 1)..Len(before.panels) :
                    HasRect(before.panels[i]) =>
                        file.panels[i + 1].y =
                            IF before.panels[i].y >= ny
                            THEN before.panels[i].y + 8
                            ELSE before.panels[i].y

\* an insertion with a panel right at the new panel's y, and one above it,
\* after the anchor
C7_Witness ==
    /\ Succeeded("tx", "insert")
    /\ LET a == FirstRow(before.panels, "Database Transactions")
           ny == before.panels[a].y + 1
       IN /\ \E i \in (a + 1)..Len(before.panels) :
                HasRect(before.panels[i]) /\ before.panels[i].y = ny
          /\ \E i \in (a + 1)..Len(before.panels) :
                HasRect(before.panels[i]) /\ before.panels[i].y < ny

\* ---------------------------------------------------------------- C8
\* the output is the input with the block spliced in before index k, the
\* panels before k unchanged and the panels from k on changed in y only
SplicedAt(old, new, k, block) ==
    /\ Len(new) = Len(old) + Len(block)
    /\ \A i \in 1..(k - 1) : new[i] = old[i]
    /\ \A i \in 1..Len(block) : new[k - 1 + i] = block[i]
    /\ \A i \in k..Len(old) :
          [new[i + Len(block)] EXCEPT !.y = old[i].y] = old[i]

\* C8: an insertion by either script keeps the pre-existing panels in their
\* order, places the block contiguously and in generation order at one
\* index, leaves the panels before that index unchanged and changes at most
\* gridPos.y of the panels at or after it.
C8_OrderAndFrame ==
    /\ Succeeded("db", "insert") =>
          \E k \in 1..(Len(before.panels) + 1) :
              SplicedAt(before.panels, file.panels, k, generate_db_panels)
    /\ Succeeded("tx", "insert") =>
          \E k \in 1..(Len(before.panels) + 1) :
              /\ Fresh300(file.panels[k])
              /\ SplicedAt(before.panels, file.panels, k, <<file.panels[k]>>)

\* a block inserted between existing panels, the later ones shifted
C8_Witness ==
    /\ Succeeded("db", "insert")
    /\ \E k \in 2..Len(before.panels) :
          /\ SplicedAt(before.panels, file.panels, k, generate_db_panels)
          /\ file.panels[k + Len(generate_db_panels)].y /= before.panels[k].y

\* ---------------------------------------------------------------- C9
\* the dashboard of the scenario: the "Database" row at y = 10 followed by
\* the panel with id 2 at y = 12
ScenarioC9 ==
    Doc(<< Panel(1, "row", "Database", 0, 10, GridWidth, 1, "existing", << >>),
           Panel(2, "stat", "Freelist Size", 0, 12, 6, 2, "existing",
                 <<"A">>) >>)

\* C9 as stated: the block is inserted directly after the anchor, every
\* non-row panel that follows the anchor is shifted down by 40, and the
\* block lies directly below the anchor row (in the scenario: id 2 ends at
\* y = 52 and the new panels are within y 11..51).
C9_InsertedAfterAnchor ==
    (Succeeded("db", "insert"))
        => LET a == FirstRow(before.panels, "Database")
               n == Len(generate_db_panels)
           IN /\ \A i \in 1..n : file.panels[a + i] = generate_db_panels[i]
              /\ file.panels[a + 1].y = before.panels[a].y + 1
              /\ \A i \in (a + 1)..Len(before.panels) :
                    (before.panels[i].type /= "row" /\ HasRect(before.panels[i]))
                        => file.panels[i + n].y = before.panels[i].y + 40
              /\ before = ScenarioC9 =>
                    /\ file.panels[Len(file.panels)].id = 2
                    /\ file.panels[Len(file.panels)].y = 52
                    /\ \A i \in 1..n : /\ file.panels[a + i].y >= 11
                                       /\ file.panels[a + i].y <= 51

\* C9 amended: the block is inserted at the end of the Database section
\* (before the first row panel after the anchor, or at the end of the list),
\* the panels of the section between the anchor and the block are unchanged,
\* and the block has the fixed y range 17..62 whatever the anchor's y (in
\* the scenario: the block follows panel id 2, which stays at y = 12).
C9_InsertedAtSectionEnd ==
    (Succeeded("db", "insert"))
        => LET a == FirstRow(before.panels, "Database")
               k == NextRowAfter(before.panels, a)
               n == Len(generate_db_panels)
               blk == [i \in 1..n |-> file.panels[k - 1 + i]]
           IN /\ \A i \in 1..(k - 1) : file.panels[i] = before.panels[i]
              /\ \A i \in 1..n : blk[i].id = 199 + i
              /\ SeqMin([i \in 1..n |-> blk[i].y], n) = 17
              /\ SeqMax([i \in 1..n |-> blk[i].y + blk[i].h], n) = 62
              /\ before = ScenarioC9 =>
                    /\ file.panels[2].id = 2
                    /\ file.panels[2].y = 12
                    /\ file.panels[3].id = 200

\* the scenario has run
C9_Witness ==
    /\ Succeeded("db", "insert")
    /\ before = ScenarioC9
    /\ Len(file.panels) = 25

\* ---------------------------------------------------------------- C10
\* C10: when no two panels of the input overlap, no two panels of the
\* output of a successful insertion by either script overlap.
C10_NonOverlapPreserved ==
    ( /\ Succeeded("db", "insert") \/ Succeeded("tx", "insert")
      /\ NoOverlap(before.panels) )
        => NoOverlap(file.panels)

\* ---------------------------------------------------------------- C11
\* C11: in a run of either script the persisted document stays the document
\* the run started with until the run has ended, and a run that has ended
\* with status 1 (anchor not found, no "panels" key, a gridPos or y missing
\* on a panel the script dereferences) leaves it so: the write is the last
\* step and only a run that ends with status 0 performs it.
C11_FailureAtomicity ==
    /\ pc /= "idle" => file = before
    /\ (pc = "idle" /\ exit_status = 1) => file = before
    /\ (pc = "idle" /\ file /= before) =>
          /\ exit_status = 0
          /\ file = dashboard

\* a run aborted by a KeyError after it had already shifted panels in memory
C11_Witness ==
    /\ pc = "idle"
    /\ exit_status = 1
    /\ LastRun.branch = "KeyError"
    /\ dashboard.hasPanels
    /\ dashboard /= before
    /\ file = before

\* ---------------------------------------------------------------- C12
\* every gridPos of the list has a y
AllGridPosHaveY(panels) ==
    \A i \in 1..Len(panels) : panels[i].hasGridPos => panels[i].hasY

HasGridless(panels) == \E i \in 1..Len(panels) : ~panels[i].hasGridPos

\* C12 as stated: a panel without a gridPos never makes a run fail: on a
\* dashboard that has the script's anchor row and whose only irregularity
\* is panels without a gridPos, the run ends with status 0 and those panels
\* are in the output untouched.
C12_GridlessNeverFails ==
    ( /\ pc = "idle"
      /\ script \in {"db", "tx"}
      /\ before.hasPanels
      /\ script = "db" => HasRow(before.panels, "Database")
      /\ script = "tx" => HasRow(before.panels, "Database Transactions")
      /\ AllGridPosHaveY(before.panels)
      /\ HasGridless(before.panels) )
        => /\ exit_status = 0
           /\ \A i \in 1..Len(before.panels) :
                 ~before.panels[i].hasGridPos =>
                     \E j \in 1..Len(file.panels) :
                         file.panels[j] = before.panels[i]

\* C12 amended: in the offset-shift step of either script a panel without a
\* gridPos is skipped and left untouched, and the panels with a gridPos at
\* or after the insertion index are shifted as usual (add_db_panels: by 40;
\* add_tx_creation_panel: by 8 when y >= the new panel's y), the run ending
\* with status 0 when every gridPos in that range has a y.  Outside that
\* step add_tx_creation_panel is not tolerant: it ends with status 1 and
\* writes nothing when the anchor row (insert path) or the existing ID-300
\* panel (update path) has no gridPos.
C12_ShiftSkipsGridless ==
    /\ ( /\ pc = "idle" /\ script = "db" /\ before.hasPanels
         /\ HasRow(before.panels, "Database")
         /\ LET k == NextRowAfter(before.panels,
                                  FirstRow(before.panels, "Database"))
            IN \A i \in k..Len(before.panels) :
                  before.panels[i].hasGridPos => before.panels[i].hasY )
          => /\ exit_status = 0
             /\ LET k == NextRowAfter(before.panels,
                                      FirstRow(before.panels, "Database"))
                    n == Len(generate_db_panels)
                IN \A i \in k..Len(before.panels) :
                      file.panels[i + n] =
                          IF before.panels[i].hasGridPos
                          THEN [before.panels[i] EXCEPT !.y = @ + 40]
                          ELSE before.panels[i]
    /\ ( /\ pc = "idle" /\ script = "tx" /\ before.hasPanels
         /\ HasRow(before.panels, "Database Transactions")
         /\ Count(before.panels, 300) = 0
         /\ LET a == FirstRow(before.panels, "Database Transactions")
            IN /\ HasRect(before.panels[a])
               /\ \A i \in (a + 1)..Len(before.panels) :
                     before.panels[i].hasGridPos => before.panels[i].hasY )
          => /\ exit_status = 0
             /\ LET a == FirstRow(before.panels, "Database Transactions")
                    ny == before.panels[a].y + 1
                IN \A i \in (a + 1)..Len(before.panels) :
                      file.panels[i + 1] =
                          IF /\ before.panels[i].hasGridPos
                             /\ before.panels[i].y >= ny
                          THEN [before.panels[i] EXCEPT !.y = @ + 8]
                          ELSE before.panels[i]
    /\ ( /\ pc = "idle" /\ script = "tx" /\ before.hasPanels
         /\ HasRow(before.panels, "Database Transactions")
         /\ LET a == FirstRow(before.panels, "Database Transactions")
            IN IF Count(before.panels, 300) = 0
               THEN ~before.panels[a].hasGridPos
               ELSE ~before.panels[IndexOfId(before.panels, 300)].hasGridPos )
          => /\ exit_status = 1
             /\ file = before

\* a block inserted before a panel without a gridPos and a panel with one
C12_Witness ==
    /\ Succeeded("db", "insert")
    /\ LET k == NextRowAfter(before.panels,
                             FirstRow(before.panels, "Database"))
           n == Len(generate_db_panels)
       IN /\ \E i \in k..Len(before.panels) :
                /\ ~before.panels[i].hasGridPos
                /\ file.panels[i + n] = before.panels[i]
          /\ \E i \in k..Len(before.panels) :
                /\ before.panels[i].hasGridPos
                /\ file.panels[i + n].y = before.panels[i].y + 40

\* ---------------------------------------------------------------- C13
Letters == <<"A", "B", "C", "D", "E", "F">>

\* the refIds are the first letters of the alphabet, in order
ConsecutiveRefIds(targets) ==
    /\ Len(targets) <= Len(Letters)
    /\ \A i \in 1..Len(targets) : targets[i] = Letters[i]

\* a panel one of the two scripts has built
Generated(p) == p.payload /= "existing"

\* C13: every panel built by generate_db_panels or create_tx_creation_panel,
\* as it stands in the document (the targets appended after the creation of
\* a time-series panel included), carries the refIds A, B, C, ... in list
\* order, hence pairwise distinct ones.
C13_RefIdsConsecutive ==
    \A d \in {file, dashboard} :
        \A i \in 1..Len(d.panels) :
            Generated(d.panels[i]) =>
                /\ ConsecutiveRefIds(d.panels[i].targets)
                /\ \A j, k \in 1..Len(d.panels[i].targets) :
                      d.panels[i].targets[j] = d.panels[i].targets[k] => j = k

\* the document holds the block's panel with four targets and the ID-300
\* panel built by create_tx_creation_panel
C13_Witness ==
    /\ pc = "idle"
    /\ \E i \in 1..Len(file.panels) :
          /\ Generated(file.panels[i])
          /\ file.panels[i].id = 208
          /\ Len(file.panels[i].targets) = 4
    /\ \E i \in 1..Len(file.panels) :
          /\ Generated(file.panels[i])
          /\ file.panels[i].id = 300
          /\ Len(file.panels[i].targets) = 3

\* ---------------------------------------------------------------- C14
\* C14: the anchor of add_db_panels is the lowest-index row panel titled
\* "Database", whatever rows of that title follow; the block is inserted at
\* the index of the first row panel after the anchor, or at the end of the
\* list when there is none, and the panels before that index, the non-row
\* panels of the Database section among them, are in the output unchanged.
C14_InsertionPoint ==
    /\ (script = "db" /\ pc \in {"db_anchored", "db_spliced"})
          => anchor = FirstRow(before.panels, "Database")
    /\ Succeeded("db", "insert")
          => LET a == FirstRow(before.panels, "Database")
                 k == NextRowAfter(before.panels, a)
                 n == Len(generate_db_panels)
             IN /\ anchor = a
                /\ Len(file.panels) = Len(before.panels) + n
                /\ SubSeq(file.panels, 1, k - 1) = SubSeq(before.panels, 1, k - 1)
                /\ SubSeq(file.panels, k, k + n - 1) = generate_db_panels
                /\ \A i \in k..Len(before.panels) :
                      file.panels[i + n].id = before.panels[i].id

\* two "Database" rows with a non-row panel between them
C14_Witness ==
    /\ Succeeded("db", "insert")
    /\ Len(before.panels) = 3
    /\ IsRow(before.panels[1], "Database")
    /\ before.panels[2].type /= "row"
    /\ IsRow(before.panels[3], "Database")
    /\ file.panels[2] = before.panels[2]
    /\ file.panels[3].id = 200

\* ---------------------------------------------------------------- C15
\* C15: a run of add_tx_creation_panel on a dashboard without a row panel
\* titled "Database Transactions" never reaches the singleton check, the
\* update or the insertion, writes nothing and ends with status 1, also
\* when a panel with ID 300 is present.
C15_AnchorBeforeSingleton ==
    ( /\ script = "tx"
      /\ before.hasPanels
      /\ ~HasRow(before.panels, "Database Transactions") )
        => /\ pc \in {"tx_loaded", "idle"}
           /\ file = before
           /\ pc = "idle" =>
                 /\ exit_status = 1
                 /\ LastRun.branch = "no_anchor"

\* such a run has ended on a dashboard that holds a panel with ID 300
C15_Witness ==
    /\ script = "tx"
    /\ pc = "idle"
    /\ exit_status = 1
    /\ before.hasPanels
    /\ ~HasRow(before.panels, "Database Transactions")
    /\ \E i \in 1..Len(before.panels) :
          before.panels[i].id = 300 /\ HasRect(before.panels[i])

\* ---------------------------------------------------------------- C16
\* a dashboard with a "Database" row, unique IDs, none of them 300 or in
\* 200..222, and no "Database Transactions" row
Composable(d) ==
    /\ d.hasPanels
    /\ HasRow(d.panels, "Database")
    /\ UniqueIds(d.panels)
    /\ \A i \in 1..Len(d.panels) :
          d.panels[i].id /= 300 /\ d.panels[i].id \notin 200..222
    /\ ~HasRow(d.panels, "Database Transactions")

\* every gridPos from the insertion index of add_db_panels on has a y
ShiftRangeHasY(d) ==
    LET k == NextRowAfter(d.panels, FirstRow(d.panels, "Database"))
    IN \A i \in k..Len(d.panels) :
          d.panels[i].hasGridPos => d.panels[i].hasY

\* the last two runs were add_db_panels and then add_tx_creation_panel
DbThenTx ==
    /\ pc = "idle"
    /\ Len(history) >= 2
    /\ history[Len(history) - 1].script = "db"
    /\ LastRun.script = "tx"

\* the ID-300 panel directly follows the row with ID 200, one below it,
\* the rest of the block is 8 lower than generated, all IDs are unique
ComposedLayout(panels) ==
    LET a == IndexOfId(panels, 200)
        n == Len(generate_db_panels)
    IN /\ IsRow(panels[a], "Database Transactions")
       /\ panels[a] = generate_db_panels[1]
       /\ panels[a + 1].id = 300
       /\ panels[a + 1].y = panels[a].y + 1
       /\ \A j \in 2..n :
             panels[a + j] = [generate_db_panels[j] EXCEPT !.y = @ + 8]
       /\ UniqueIds(panels)

C17_BlockLayout ==
    (script = "db" /\ pc = "db_spliced")
        => LET a == FirstRow(before.panels, "Database")
               k == NextRowAfter(before.panels, a)
               n == Len(generate_db_panels)
               blk == SubSeq(dashboard.panels, k, k + n - 1)
           IN /\ \A i \in 1..n : blk[i].id = 200 + (i - 1)
              /\ \A i, j \in 1..n : blk[i].id = blk[j].id => i = j
              /\ \A i \in 1..n : /\ HasRect(blk[i])
                                 /\ blk[i].x >= 0
                                 /\ blk[i].w > 0 /\ blk[i].h > 0
                                 /\ blk[i].x + blk[i].w <= 24
              /\ NoOverlap(blk)
              /\ blk[1].y = 17
              /\ \A i \in 1..n : blk[i].y >= 17
              /\ blk = generate_db_panels

\* a block spliced in below an anchor row that lies lower than the block
C17_Witness ==
    /\ script = "db"
    /\ pc = "db_spliced"
    /\ HasRect(before.panels[FirstRow(before.panels, "Database")])
    /\ before.panels[FirstRow(before.panels, "Database")].y = 30
    /\ dashboard.panels[FirstRow(before.panels, "Database") + 1].y = 17

====
